---- MODULE Spec2Model ----
(***************************************************************************)
(* Batched matrix inversion of ATen/native/cuda/BatchLinearAlgebraLib.cu:  *)
(* _inverse_helper_cuda_lib, apply_single_inverse_lib,                     *)
(* apply_batched_inverse_lib and _apply_single_inverse_helper.             *)
(*                                                                         *)
(* Device memory is a heap of named buffers; a pointer is a buffer name    *)
(* and an element offset.  A data cell is a pair <<tag, id>>: "a" an input *)
(* element (id = its row-major index in the caller's tensor), "lu" a       *)
(* factor entry computed from that element, "x" an entry of the inverse    *)
(* computed from that factor entry, "id" an entry of the identity (id is   *)
(* 1 on the diagonal), "p" a pivot, "u" uninitialised scratch, "bad" the   *)
(* result of a kernel that read something it was not meant to read.  A     *)
(* status cell is [v |-> code, w |-> the sequence of <<matrix, phase>>     *)
(* kernels that wrote it].  The numerical backend is an oracle: the status *)
(* code it reports for a matrix and a phase is an input, drawn when a      *)
(* kernel first asks for it and the same whenever it is asked again.       *)
(***************************************************************************)
EXTENDS Integers, Sequences, FiniteSets, TLC

MaxBatch == 3
MaxDim == 2

\* sizeof(scalar_t) of the element kinds the dispatch instantiates
ElemSizes == {4, 8}
\* codes a factorization may report (0, or k > 0: U(k,k) is zero)
FactorCodes == {0, 1}
\* codes a solve / invert may report (0, or negative: illegal argument)
SolveCodes == {0, -1}

VARIABLES
  pc,             \* position of the calling thread
  shape,          \* sizes of the caller's tensor `self`
  elsize,         \* sizeof(scalar_t), 0 until the fused strategy reads it
  oracle,         \* backend: <<matrix, phase>> -> the code it reported
  mem,            \* the heap: buffer name -> cells
  stage,          \* per invocation: idle, queued, factored, solved
  args,           \* per invocation: the pointers it was launched with
  next_i,         \* loop index of CUDA_PARALLEL_STREAM_LAUNCH
  branch,         \* "none", "batch" (line 101) or "single" (line 108)
  strategy,       \* "none", "loop" (line 49) or "fused" (line 59)
  self_array,     \* device array of input pointers (line 61)
  self_inv_array, \* device array of output pointers (line 65)
  wlog,           \* history: <<buffer, index, invocation>> of every data write
  emitted,        \* history: <<invocation, phase, code>> the backend reported
  ub,             \* history: a kernel was handed memory outside its buffer
  fault,          \* a kernel has faulted on the device
  ndispatch,      \* history: number of device kernels dispatched
  audited,        \* history: the status cells as the audit read them
  result          \* "none", "returned", "linalg_error", "invalid_argument",
                  \* "range_error", "device_error"

vars == <<pc, shape, elsize, oracle, mem, stage, args, next_i, branch, strategy,
          self_array, self_inv_array, wlog, emitted, ub, fault, ndispatch, audited,
          result>>

----------------------------------------------------------------------------
\* Shapes and layout

Shapes ==
  {[rank |-> 2, lead |-> 1, rows |-> r, cols |-> c] : r \in 0..MaxDim, c \in 0..MaxDim}
  \cup
  {[rank |-> 3, lead |-> b, rows |-> r, cols |-> c] :
      b \in 0..MaxBatch, r \in 0..MaxDim, c \in 0..MaxDim}

\* product of the sizes before the trailing two
batchCount(sh) == IF sh.rank = 2 THEN 1 ELSE sh.lead

\* elements between the starts of consecutive matrices
matrixStride(sh) == sh.rows * sh.cols

numel(sh) == batchCount(sh) * sh.rows * sh.cols

Max(a, b) == IF a >= b THEN a ELSE b

Invocations(sh) == 0..(Max(batchCount(sh), 1) - 1)

\* the caller's tensor: contiguous, row-major, element k is <<"a", k>>
Input(sh) == [k \in 0..(numel(sh) - 1) |-> <<"a", k>>]

\* a fresh buffer: each matrix of src copied with its two indices exchanged
cloneBatchedColumnMajor(sh, src) ==
  [k \in 0..(numel(sh) - 1) |->
     LET i   == k \div (sh.rows * sh.cols)
         rem == k % (sh.rows * sh.cols)
         c   == rem \div sh.rows
         r   == rem % sh.rows
     IN  src[(i * sh.rows + r) * sh.cols + c]]

\* sizes of ones(size_slice).diag_embed(): the last size is dropped and the
\* one before it doubled
identity_shape(sh) == [sh EXCEPT !.cols = sh.rows]

\* storage of ones(size_slice).diag_embed(); transpose(-2, -1) exchanges the
\* strides of the view and leaves the storage as it is
column_major_identity_matrix_like(sh) ==
  [k \in 0..(numel(identity_shape(sh)) - 1) |->
     LET rem == k % (sh.rows * sh.rows)
     IN  <<"id", IF rem \div sh.rows = rem % sh.rows THEN 1 ELSE 0>>]

\* at::zeros({len}, kInt)
zeros(len) == [k \in 0..(len - 1) |-> [v |-> 0, w |-> <<>>]]

\* at::empty({len}, kInt): the cells hold what the memory held
empty(len) == [k \in 0..(len - 1) |-> [v |-> 7, w |-> <<>>]]

\* at::empty in place of at::zeros
status_tensor_uninitialised(len) == empty(len)

\* the status tensor of lines 102 and 109
status_tensor(len) == zeros(len)

allocate(len) == [k \in 0..(len - 1) |-> <<"u", 0>>]

Empty == [k \in {} |-> <<"u", 0>>]

----------------------------------------------------------------------------
\* Pointers and addresses

Ptr(b, o) == [buf |-> b, off |-> o]

PtrAdd(p, k) == [p EXCEPT !.off = @ + k]

Null == Ptr("null", 0)

NoArgs == [self_ptr |-> Null, self_inv_ptr |-> Null, ipiv_ptr |-> Null, info_ptr |-> Null]

\* addresses the allocator handed out for the three element buffers
BaseAddress == [self |-> 4096, wc |-> 8192, inv |-> 12288]

RegionBytes == 4096

\* reinterpret_cast<long>(pointer)
AddressOf(p) == BaseAddress[p.buf] + p.off * elsize

\* reinterpret_cast<scalar_t*>(address)
Deref(a) ==
  IF \E b \in DOMAIN BaseAddress :
        /\ a >= BaseAddress[b]
        /\ a < BaseAddress[b] + RegionBytes
        /\ (a - BaseAddress[b]) % elsize = 0
  THEN LET b == CHOOSE b \in DOMAIN BaseAddress :
                  a >= BaseAddress[b] /\ a < BaseAddress[b] + RegionBytes
       IN  Ptr(b, (a - BaseAddress[b]) \div elsize)
  ELSE Ptr("wild", 0)

InBuf(m, p, k) == p.buf \in DOMAIN m /\ (p.off + k) \in DOMAIN m[p.buf]

AllInBuf(m, p, len) == \A k \in 0..(len - 1) : InBuf(m, p, k)

\* at::arange(start, end, step): start, start + step, ... below end
arange(start, end, step) ==
  IF step = 0
  THEN [ok |-> FALSE, vals |-> <<>>]
  ELSE [ok |-> TRUE,
        vals |-> [k \in 1..((end - start + step - 1) \div step) |-> start + (k - 1) * step]]

----------------------------------------------------------------------------
\* The backend kernels.  d is the device state: the heap, the histories, the
\* codes the backend has reported so far, and whether the codes handed to the
\* kernels agree with them.

Device ==
  [mem |-> mem, wlog |-> wlog, emitted |-> emitted, ub |-> ub,
   oracle |-> oracle, consistent |-> TRUE]

Known(o, mat, phase) == <<mat, phase>> \in DOMAIN o

Agrees(o, mat, phase, code) == Known(o, mat, phase) => o[<<mat, phase>>] = code

Learn(o, mat, phase, code) ==
  [x \in DOMAIN o \cup {<<mat, phase>>} |-> IF x = <<mat, phase>> THEN code ELSE o[x]]

\* cells of `new` (a function on 0..len-1) stored from p on; a store outside
\* the buffer is dropped
WriteCells(m, p, new) ==
  IF p.buf \notin DOMAIN m
  THEN m
  ELSE [m EXCEPT ![p.buf] =
          [j \in DOMAIN m[p.buf] |->
             IF (j - p.off) \in DOMAIN new THEN new[j - p.off] ELSE m[p.buf][j]]]

Touched(m, p, len, inv) ==
  {<<p.buf, p.off + k, inv>> : k \in {k \in 0..(len - 1) : InBuf(m, p, k)}}

\* id of the first element of the matrix at p, -1 when there is none
FirstId(m, p, nn) ==
  IF nn > 0 /\ InBuf(m, p, 0) THEN m[p.buf][p.off][2] ELSE -1

\* the matrix whose elements lie at p: the backend's codes depend on the data
MatOf(m, p, nn, inv) ==
  LET q == FirstId(m, p, nn) \div (nn * nn)
  IN  IF nn > 0 /\ FirstId(m, p, nn) >= 0 THEN q ELSE inv

Factor(c) == IF c[1] = "a" THEN <<"lu", c[2]>> ELSE <<"bad", c[2]>>

IdCell(nn, k) == <<"id", IF k \div nn = k % nn THEN 1 ELSE 0>>

StatusWrite(m, p, code, who) ==
  IF InBuf(m, p, 0)
  THEN [m EXCEPT ![p.buf][p.off] = [v |-> code, w |-> Append(@.w, who)]]
  ELSE m

PivotsOf(m, p, nn, tag) ==
  \A r \in 0..(nn - 1) : InBuf(m, p, r) /\ m[p.buf][p.off + r] = <<"p", tag>>

\* solver::getrf(handle, n, n, A, n, ipiv, info): factors A in place
getrf(d, nn, self_ptr, ipiv_ptr, info_ptr, inv, code) ==
  LET m    == d.mem
      mat  == MatOf(m, self_ptr, nn, inv)
      tag  == FirstId(m, self_ptr, nn)
      lu   == [k \in 0..(nn * nn - 1) |->
                 IF InBuf(m, self_ptr, k)
                 THEN Factor(m[self_ptr.buf][self_ptr.off + k])
                 ELSE <<"bad", -1>>]
      piv  == [k \in 0..(nn - 1) |-> <<"p", tag>>]
      m1   == WriteCells(m, self_ptr, lu)
      m2   == WriteCells(m1, ipiv_ptr, piv)
  IN  [mem     |-> StatusWrite(m2, info_ptr, code, <<inv, 0>>),
       wlog    |-> d.wlog \cup Touched(m, self_ptr, nn * nn, inv)
                          \cup Touched(m, ipiv_ptr, nn, inv)
                          \cup Touched(m, info_ptr, 1, inv),
       emitted |-> d.emitted \cup {<<inv, 0, code>>},
       ub      |-> d.ub \/ ~AllInBuf(m, self_ptr, nn * nn)
                        \/ ~AllInBuf(m, ipiv_ptr, nn) \/ ~InBuf(m, info_ptr, 0),
       oracle  |-> Learn(d.oracle, mat, 0, code),
       consistent |-> d.consistent /\ Agrees(d.oracle, mat, 0, code)]

\* the entries of the inverse computed from the factors at self_ptr and the
\* pivots at ipiv_ptr; needs_rhs: the result is a solve against the cells
\* already at self_inv_ptr, which must hold the identity
InverseCells(m, nn, self_ptr, ipiv_ptr, self_inv_ptr, needs_rhs) ==
  [k \in 0..(nn * nn - 1) |->
     IF InBuf(m, self_ptr, k) /\ InBuf(m, self_inv_ptr, k)
     THEN LET lu == m[self_ptr.buf][self_ptr.off + k]
          IN  IF /\ lu[1] = "lu"
                 /\ PivotsOf(m, ipiv_ptr, nn, FirstId(m, self_ptr, nn))
                 /\ (needs_rhs => m[self_inv_ptr.buf][self_inv_ptr.off + k] = IdCell(nn, k))
              THEN <<"x", lu[2]>>
              ELSE <<"bad", lu[2]>>
     ELSE <<"bad", -1>>]

\* solver::getrs(handle, n, n, A, n, ipiv, B, n, info): solves in place on B
getrs(d, nn, self_ptr, ipiv_ptr, self_inv_ptr, info_ptr, inv, code) ==
  LET m    == d.mem
      mat  == MatOf(m, self_ptr, nn, inv)
      x    == InverseCells(m, nn, self_ptr, ipiv_ptr, self_inv_ptr, TRUE)
  IN  [mem     |-> StatusWrite(WriteCells(m, self_inv_ptr, x), info_ptr, code, <<inv, 1>>),
       wlog    |-> d.wlog \cup Touched(m, self_inv_ptr, nn * nn, inv)
                          \cup Touched(m, info_ptr, 1, inv),
       emitted |-> d.emitted \cup {<<inv, 1, code>>},
       ub      |-> d.ub \/ ~AllInBuf(m, self_ptr, nn * nn) \/ ~AllInBuf(m, ipiv_ptr, nn)
                        \/ ~AllInBuf(m, self_inv_ptr, nn * nn) \/ ~InBuf(m, info_ptr, 0),
       oracle  |-> Learn(d.oracle, mat, 1, code),
       consistent |-> d.consistent /\ Agrees(d.oracle, mat, 1, code)]

\* one matrix of blas::getriBatched: inverts out of place, from A into C
getri(d, nn, self_ptr, ipiv_ptr, self_inv_ptr, info_ptr, inv, code) ==
  LET m    == d.mem
      mat  == MatOf(m, self_ptr, nn, inv)
      x    == InverseCells(m, nn, self_ptr, ipiv_ptr, self_inv_ptr, FALSE)
  IN  [mem     |-> StatusWrite(WriteCells(m, self_inv_ptr, x), info_ptr, code, <<inv, 1>>),
       wlog    |-> d.wlog \cup Touched(m, self_inv_ptr, nn * nn, inv)
                          \cup Touched(m, info_ptr, 1, inv),
       emitted |-> d.emitted \cup {<<inv, 1, code>>},
       ub      |-> d.ub \/ ~AllInBuf(m, self_ptr, nn * nn) \/ ~AllInBuf(m, ipiv_ptr, nn)
                        \/ ~AllInBuf(m, self_inv_ptr, nn * nn) \/ ~InBuf(m, info_ptr, 0),
       oracle  |-> Learn(d.oracle, mat, 1, code),
       consistent |-> d.consistent /\ Agrees(d.oracle, mat, 1, code)]

\* the k-th pointer of a device array of pointers
PointerAt(arr, k) == IF (k + 1) \in DOMAIN arr THEN Deref(arr[k + 1]) ELSE Ptr("wild", 0)

\* blas::getrfBatched(n, Aarray, n, ipiv_array, info_array, batch_size),
\* matrices k .. batch_size-1; codes[k] is the code of the k-th
RECURSIVE getrfBatched(_, _, _, _, _, _, _, _)
getrfBatched(d, nn, Aarray, ipiv_array, info_array, bs, codes, k) ==
  IF k >= bs
  THEN d
  ELSE getrfBatched(
         getrf(d, nn, PointerAt(Aarray, k), PtrAdd(ipiv_array, k * nn),
               PtrAdd(info_array, k), k, codes[k]),
         nn, Aarray, ipiv_array, info_array, bs, codes, k + 1)

\* blas::getriBatched(n, Aarray, n, ipiv_array, info_array, batch_size, Carray),
\* matrices k .. batch_size-1; codes[k] is the code of the k-th
RECURSIVE getriBatched(_, _, _, _, _, _, _, _, _)
getriBatched(d, nn, Aarray, ipiv_array, info_array, bs, Carray, codes, k) ==
  IF k >= bs
  THEN d
  ELSE getriBatched(
         getri(d, nn, PointerAt(Aarray, k), PtrAdd(ipiv_array, k * nn),
               PointerAt(Carray, k), PtrAdd(info_array, k), k, codes[k]),
         nn, Aarray, ipiv_array, info_array, bs, Carray, codes, k + 1)

\* at::stack({a, b}, dim) of two vectors of one length, as contiguous storage:
\* dim 1 gives a [len, 2] tensor whose row k is <<a[k], b[k]>>, dim 0 a
\* [2, len] tensor whose rows are a and b
stack(a, b, dim) ==
  LET len == Cardinality(DOMAIN a)
  IN  [j \in 0..(2 * len - 1) |->
         IF dim = 1
         THEN IF j % 2 = 0 THEN a[j \div 2] ELSE b[j \div 2]
         ELSE IF j < len THEN a[j] ELSE b[j - len]]

\* the two status vectors stacked along dimension 0
stacked_infos_dim0(info1, info2) == stack(info1, info2, 0)

\* line 82
stacked_infos(info1, info2) == stack(info1, info2, 1)

----------------------------------------------------------------------------
\* Locals of _inverse_helper_cuda_lib and apply_batched_inverse_lib

batch_size == batchCount(shape)

n == shape.rows

\* the data pointer of the caller's tensor in place of the working copy's
self_data_of_caller == Ptr("self", 0)

\* self.data_ptr<scalar_t>(), self being the working copy passed at line 105
self_data == Ptr("wc", 0)

self_mat_stride == matrixStride(shape)

self_inv_data == Ptr("inv", 0)

self_inv_mat_stride == matrixStride(identity_shape(shape))

p_infos == Ptr("infos", 0)

pivot == Ptr("pivot", 0)

\* p_infos + i in place of p_infos + i * 2
LoopArgs_info_stride_1(i) ==
  [self_ptr     |-> PtrAdd(self_data, i * self_mat_stride),
   self_inv_ptr |-> PtrAdd(self_inv_data, i * self_inv_mat_stride),
   ipiv_ptr     |-> PtrAdd(pivot, i * n),
   info_ptr     |-> PtrAdd(p_infos, i)]

\* pivot + i in place of pivot + i * n
LoopArgs_pivot_stride_1(i) ==
  [self_ptr     |-> PtrAdd(self_data, i * self_mat_stride),
   self_inv_ptr |-> PtrAdd(self_inv_data, i * self_inv_mat_stride),
   ipiv_ptr     |-> PtrAdd(pivot, i),
   info_ptr     |-> PtrAdd(p_infos, i * 2)]

\* the arguments of invocation i of the parallel-stream loop
LoopArgs(i) ==
  [self_ptr     |-> PtrAdd(self_data, i * self_mat_stride),
   self_inv_ptr |-> PtrAdd(self_inv_data, i * self_inv_mat_stride),
   ipiv_ptr     |-> PtrAdd(pivot, i * n),
   info_ptr     |-> PtrAdd(p_infos, i * 2)]

\* the arguments apply_single_inverse_lib passes
SingleArgs ==
  [self_ptr     |-> Ptr("wc", 0),
   self_inv_ptr |-> Ptr("inv", 0),
   ipiv_ptr     |-> Ptr("pivot", 0),
   info_ptr     |-> Ptr("infos", 0)]

\* info_ptr in place of info_ptr + 1
solve_info_ptr_same(info_ptr) == info_ptr

\* where _apply_single_inverse_helper has getrs write its status
solve_info_ptr(info_ptr) == PtrAdd(info_ptr, 1)

\* the end of the range without the + 1 that makes it inclusive
array_end_exclusive(data, count, stride) == AddressOf(PtrAdd(data, (count - 1) * stride))

\* end and step of the arange that builds a pointer array for `count`
\* matrices `stride` elements apart
array_end(data, count, stride) == AddressOf(PtrAdd(data, (count - 1) * stride)) + 1

array_step(stride) == stride * elsize

pointer_array(data, count, stride) ==
  arange(AddressOf(data), array_end(data, count, stride), array_step(stride))

\* the decisions the strategy selector can take for (batch_size, n): its
\* thresholds are tuning constants
use_loop_launch(bs, nn) == BOOLEAN

\* no check of the shape
squareCheckInputs_none(sh) == TRUE

\* the entry point accepts only square trailing dimensions
squareCheckInputs(sh) == sh.rows = sh.cols

\* no wait of the calling stream for the launched invocations
StreamsJoined_none == TRUE

\* CUDA_PARALLEL_STREAM_LAUNCH makes the calling stream wait for every
\* launched invocation; work on one stream runs in the order it was queued
StreamsJoined == \A i \in DOMAIN stage : stage[i] \in {"idle", "solved"}

\* batchCheckErrors(infos, name, false, 2) raises
batchCheckErrors(t) == \E k \in DOMAIN t : t[k].v # 0

----------------------------------------------------------------------------
Init ==
  /\ pc = "entry"
  /\ shape \in Shapes
  /\ elsize = 0
  /\ oracle = [x \in {} |-> 0]
  /\ mem = [self |-> Input(shape), wc |-> Empty, inv |-> Empty, pivot |-> Empty,
            infos |-> Empty, info1 |-> Empty, info2 |-> Empty]
  /\ stage = [i \in Invocations(shape) |-> "idle"]
  /\ args = [i \in Invocations(shape) |-> NoArgs]
  /\ next_i = 0
  /\ branch = "none"
  /\ strategy = "none"
  /\ self_array = <<>>
  /\ self_inv_array = <<>>
  /\ wlog = {}
  /\ emitted = {}
  /\ ub = FALSE
  /\ fault = FALSE
  /\ ndispatch = 0
  /\ audited = Empty
  /\ result = "none"

\* the device state after a kernel whose codes agree with the backend's.  A
\* kernel handed memory outside its buffer has undefined behaviour: it either
\* goes on, its stores outside the buffer lost, or faults and stores nothing.
Commit(d) ==
  /\ d.consistent
  /\ ub' = d.ub
  /\ \/ /\ mem' = d.mem
        /\ wlog' = d.wlog
        /\ emitted' = d.emitted
        /\ oracle' = d.oracle
        /\ fault' = fault
     \/ /\ d.ub
        /\ fault' = TRUE
        /\ UNCHANGED <<mem, wlog, emitted, oracle>>

\* the entry point checks the shape before it calls the helper
Validate ==
  /\ pc = "entry"
  /\ IF squareCheckInputs(shape)
     THEN pc' = "helper" /\ result' = result
     ELSE pc' = "raised" /\ result' = "invalid_argument"
  /\ UNCHANGED <<shape, elsize, oracle, mem, stage, args, next_i, branch, strategy,
                 self_array, self_inv_array, wlog, emitted, ub, fault, ndispatch, audited>>

\* lines 97-99
Prepare ==
  /\ pc = "helper"
  /\ mem' = [mem EXCEPT !.wc = cloneBatchedColumnMajor(shape, mem.self),
                        !.inv = column_major_identity_matrix_like(shape)]
  /\ pc' = "branch"
  /\ UNCHANGED <<shape, elsize, oracle, stage, args, next_i, branch, strategy,
                 self_array, self_inv_array, wlog, emitted, ub, fault, ndispatch, audited, result>>

\* lines 101-102 and 108-109
Branch ==
  /\ pc = "branch"
  /\ IF shape.rank > 2 /\ batch_size > 1
     THEN /\ branch' = "batch"
          /\ mem' = [mem EXCEPT !.infos = status_tensor(batchCount(shape) * 2)]
          /\ pc' = "select"
     ELSE /\ branch' = "single"
          /\ mem' = [mem EXCEPT !.infos = status_tensor(2)]
          /\ pc' = "single"
  /\ UNCHANGED <<shape, elsize, oracle, stage, args, next_i, strategy,
                 self_array, self_inv_array, wlog, emitted, ub, fault, ndispatch, audited, result>>

\* lines 49-53 and 59; sizeof(scalar_t) is read in the fused strategy only
\* (lines 64 and 68), where the element kind of the dispatch fixes it
Select ==
  /\ pc = "select"
  /\ \E loop \in use_loop_launch(batch_size, n) :
       IF loop
       THEN /\ strategy' = "loop"
            /\ mem' = [mem EXCEPT !.pivot = allocate(n * batch_size)]
            /\ elsize' = elsize
            /\ pc' = "loop"
       ELSE /\ strategy' = "fused"
            /\ mem' = mem
            /\ elsize' \in ElemSizes
            /\ pc' = "arange"
  /\ UNCHANGED <<shape, oracle, stage, args, next_i, branch,
                 self_array, self_inv_array, wlog, emitted, ub, fault, ndispatch, audited, result>>

\* lines 54-57: one iteration of the launch loop queues getrf and getrs of
\* matrix next_i on a stream of its own
Launch ==
  /\ pc = "loop"
  /\ next_i < batch_size
  /\ stage' = [stage EXCEPT ![next_i] = "queued"]
  /\ args' = [args EXCEPT ![next_i] = LoopArgs(next_i)]
  /\ next_i' = next_i + 1
  /\ ndispatch' = ndispatch + 2
  /\ pc' = IF next_i + 1 = batch_size THEN "audit" ELSE "loop"
  /\ UNCHANGED <<shape, elsize, oracle, mem, branch, strategy,
                 self_array, self_inv_array, wlog, emitted, ub, fault, audited, result>>

\* lines 88-93
SingleLaunch ==
  /\ pc = "single"
  /\ mem' = [mem EXCEPT !.pivot = allocate(n)]
  /\ stage' = [stage EXCEPT ![0] = "queued"]
  /\ args' = [args EXCEPT ![0] = SingleArgs]
  /\ ndispatch' = ndispatch + 2
  /\ pc' = "audit"
  /\ UNCHANGED <<shape, elsize, oracle, next_i, branch, strategy,
                 self_array, self_inv_array, wlog, emitted, ub, fault, audited, result>>

\* line 33, on the device
Getrf(i) ==
  /\ stage[i] = "queued"
  /\ \E code \in FactorCodes :
       LET d == getrf(Device, n, args[i].self_ptr, args[i].ipiv_ptr, args[i].info_ptr,
                      i, code)
       IN  Commit(d)
  /\ stage' = [stage EXCEPT ![i] = "factored"]
  /\ UNCHANGED <<pc, shape, elsize, args, next_i, branch, strategy,
                 self_array, self_inv_array, ndispatch, audited, result>>

\* line 34, on the device
Getrs(i) ==
  /\ stage[i] = "factored"
  /\ \E code \in SolveCodes :
       LET d == getrs(Device, n, args[i].self_ptr, args[i].ipiv_ptr, args[i].self_inv_ptr,
                      solve_info_ptr(args[i].info_ptr), i, code)
       IN  Commit(d)
  /\ stage' = [stage EXCEPT ![i] = "solved"]
  /\ UNCHANGED <<pc, shape, elsize, args, next_i, branch, strategy,
                 self_array, self_inv_array, ndispatch, audited, result>>

\* lines 61-74
BuildArrays ==
  /\ pc = "arange"
  /\ LET a == pointer_array(self_data, batch_size, self_mat_stride)
         c == pointer_array(self_inv_data, batch_size, self_inv_mat_stride)
     IN  IF a.ok /\ c.ok
         THEN /\ self_array' = a.vals
              /\ self_inv_array' = c.vals
              /\ mem' = [mem EXCEPT !.pivot = allocate(batch_size * n),
                                    !.info1 = zeros(batch_size),
                                    !.info2 = zeros(batch_size)]
              /\ pc' = "getrfBatched"
              /\ result' = result
         ELSE /\ pc' = "raised"
              /\ result' = "range_error"
              /\ UNCHANGED <<self_array, self_inv_array, mem>>
  /\ UNCHANGED <<shape, elsize, oracle, stage, args, next_i, branch, strategy,
                 wlog, emitted, ub, fault, ndispatch, audited>>

\* lines 76-77
GetrfBatched ==
  /\ pc = "getrfBatched"
  /\ \E codes \in [0..(batch_size - 1) -> FactorCodes] :
       LET d == getrfBatched(Device, n, self_array, pivot, Ptr("info1", 0), batch_size,
                             codes, 0)
       IN  Commit(d)
  /\ ndispatch' = ndispatch + 1
  /\ pc' = "getriBatched"
  /\ UNCHANGED <<shape, elsize, stage, args, next_i, branch, strategy,
                 self_array, self_inv_array, audited, result>>

\* lines 79-80
GetriBatched ==
  /\ pc = "getriBatched"
  /\ \E codes \in [0..(batch_size - 1) -> SolveCodes] :
       LET d == getriBatched(Device, n, self_array, pivot, Ptr("info2", 0), batch_size,
                             self_inv_array, codes, 0)
       IN  Commit(d)
  /\ ndispatch' = ndispatch + 1
  /\ pc' = "stack"
  /\ UNCHANGED <<shape, elsize, stage, args, next_i, branch, strategy,
                 self_array, self_inv_array, audited, result>>

\* line 82: infos now names the stacked tensor
Stack ==
  /\ pc = "stack"
  /\ mem' = [mem EXCEPT !.infos = stacked_infos(mem.info1, mem.info2)]
  /\ pc' = "audit"
  /\ UNCHANGED <<shape, elsize, oracle, stage, args, next_i, branch, strategy,
                 self_array, self_inv_array, wlog, emitted, ub, fault, ndispatch, audited, result>>

\* lines 107 and 113
Audit ==
  /\ pc = "audit"
  /\ StreamsJoined
  /\ IF fault
     THEN pc' = "raised" /\ result' = "device_error" /\ audited' = audited
     ELSE /\ audited' = mem.infos
          /\ IF batchCheckErrors(mem.infos)
             THEN pc' = "raised" /\ result' = "linalg_error"
             ELSE pc' = "return" /\ result' = result
  /\ UNCHANGED <<shape, elsize, oracle, mem, stage, args, next_i, branch, strategy,
                 self_array, self_inv_array, wlog, emitted, ub, fault, ndispatch>>

\* line 116
Return ==
  /\ pc = "return"
  /\ result' = "returned"
  /\ pc' = "done"
  /\ UNCHANGED <<shape, elsize, oracle, mem, stage, args, next_i, branch, strategy,
                 self_array, self_inv_array, wlog, emitted, ub, fault, ndispatch, audited>>

Next ==
  \/ Validate
  \/ Prepare
  \/ Branch
  \/ Select
  \/ Launch
  \/ SingleLaunch
  \/ \E i \in DOMAIN stage : Getrf(i)
  \/ \E i \in DOMAIN stage : Getrs(i)
  \/ BuildArrays
  \/ GetrfBatched
  \/ GetriBatched
  \/ Stack
  \/ Audit
  \/ Return

Spec == Init /\ [][Next]_vars

----------------------------------------------------------------------------
\* What the claims speak of

\* the audit has read the status cells
AuditDone == pc \in {"return", "done"} \/ result = "linalg_error"

\* the audit is reading the status cells or has read them
AtAudit == (pc = "audit" /\ StreamsJoined /\ ~fault) \/ AuditDone

Matrices == 0..(batch_size - 1)

\* the code the backend reported for phase p of matrix i
Code(i, p) == oracle[<<i, p>>]

Reported(i) == Known(oracle, i, 0) /\ Known(oracle, i, 1)

NonZero == {e \in emitted : e[3] # 0}

\* the inverse of the input in column-major order: entry (r, c) of matrix i
\* computed from element (r, c) of matrix i of the caller's tensor
ExpectedInverse ==
  [k \in 0..(batch_size * n * n - 1) |->
     LET i == k \div (n * n)
         c == (k % (n * n)) \div n
         r == k % n
     IN  <<"x", (i * n + r) * n + c>>]

Slice(f, lo, len) == [k \in 0..(len - 1) |-> f[lo + k]]

\* C1: for N >= 1, once the audit has run, the call has raised exactly when
\* one of the 2N codes the backend reported is non-zero, and it returns the
\* output only when all 2N are zero.
C1_AuditRaisesOnAnyNonZeroCode ==
  batch_size >= 1 =>
    /\ AuditDone =>
         /\ \A i \in Matrices : \A p \in {0, 1} : \E e \in emitted : e[1] = i /\ e[2] = p
         /\ Cardinality(emitted) = 2 * batch_size
         /\ (NonZero # {}) <=> (result = "linalg_error" /\ pc = "raised")
    /\ result = "returned" => NonZero = {}
    /\ NonZero # {} => pc \notin {"return", "done"}

C1_Witness ==
  /\ result = "linalg_error"
  /\ batch_size >= 2
  /\ Cardinality(NonZero) = 1

C3_SingleBranchOnlyForOneMatrix ==
  /\ branch = "batch" => batch_size > 1
  /\ branch = "single" => batch_size = 1

\* C4: in the parallel-stream strategy the slice and the status pair of
\* matrix j are what the backend gives for matrix j alone, whatever the other
\* matrices' codes; status slot k is written by matrix k / 2 only; and the
\* audit finds both phases of every matrix run.
C4_FailureDoesNotAffectSiblings ==
  strategy = "loop" =>
    \A j \in Matrices :
      /\ stage[j] = "solved" =>
           /\ Slice(mem.inv, j * n * n, n * n) = Slice(ExpectedInverse, j * n * n, n * n)
           /\ Reported(j)
           /\ mem.infos[2 * j].v = Code(j, 0)
           /\ mem.infos[2 * j + 1].v = Code(j, 1)
      /\ stage[j] \in {"idle", "queued"} =>
           mem.infos[2 * j].v = 0 /\ mem.infos[2 * j + 1].v = 0
      /\ stage[j] = "factored" =>
           /\ Known(oracle, j, 0)
           /\ mem.infos[2 * j].v = Code(j, 0) /\ mem.infos[2 * j + 1].v = 0
      /\ AuditDone => stage[j] = "solved"

C4_Witness ==
  /\ strategy = "loop"
  /\ result = "linalg_error"
  /\ n >= 1
  /\ \E i, j \in Matrices :
       /\ i # j
       /\ Code(i, 0) # 0
       /\ Code(j, 0) = 0 /\ Code(j, 1) = 0
       /\ mem.infos[2 * j].v = 0 /\ mem.infos[2 * j + 1].v = 0
       /\ Slice(mem.inv, j * n * n, n * n) = Slice(ExpectedInverse, j * n * n, n * n)

\* C5: in the parallel-stream strategy the audit reads the status cells
\* after every invocation has finished both phases: what it read is the
\* final content, each cell after its one write.
C5_AuditAfterAllInvocations ==
  (strategy = "loop" /\ AuditDone) =>
    /\ \A i \in Matrices : stage[i] = "solved"
    /\ audited = mem.infos
    /\ \A k \in DOMAIN audited : Len(audited[k].w) = 1

C5_Witness == strategy = "loop" /\ pc = "done" /\ batch_size >= 2

\* the k-th pointer array entry the claim C6 states
StartAddress(base, k, stride) == base + k * stride * elsize

IsPointerArray(arr, base, stride) ==
  /\ Len(arr) = batch_size
  /\ \A k \in 0..(batch_size - 1) : arr[k + 1] = StartAddress(base, k, stride)
  /\ \A k1, k2 \in 1..Len(arr) : k1 # k2 => arr[k1] # arr[k2]

ArraysBuilt == strategy = "fused" /\ pc # "arange"

\* C6 as stated: in the fused strategy, for every n including n = 0, both
\* pointer arrays hold N pairwise distinct addresses, the k-th being
\* base + k * stride * element size.
C6_PointerArraysForEveryN ==
  ArraysBuilt =>
    /\ IsPointerArray(self_array, BaseAddress.wc, n * n)
    /\ IsPointerArray(self_inv_array, BaseAddress.inv, n * n)

\* C6 amended: the same for n >= 1; for n = 0 the stride and the step are 0,
\* no pointer array is built and the call ends in the range error without a
\* batched call.
C6_PointerArraysForPositiveN ==
  ArraysBuilt =>
    IF n >= 1
    THEN /\ IsPointerArray(self_array, BaseAddress.wc, n * n)
         /\ IsPointerArray(self_inv_array, BaseAddress.inv, n * n)
    ELSE /\ self_array = <<>> /\ self_inv_array = <<>>
         /\ result = "range_error"
         /\ ndispatch = 0

C6_Witness == pc = "getriBatched" /\ n >= 2 /\ batch_size >= 3

C8_InvocationsTouchDisjointCells ==
  strategy = "loop" =>
    /\ self_mat_stride >= n * n /\ self_inv_mat_stride >= n * n
    /\ \A i \in Matrices :
         stage[i] # "idle" =>
           /\ args[i].self_ptr = Ptr("wc", i * self_mat_stride)
           /\ args[i].self_inv_ptr = Ptr("inv", i * self_inv_mat_stride)
           /\ args[i].ipiv_ptr = Ptr("pivot", i * n)
           /\ args[i].info_ptr = Ptr("infos", 2 * i)
    /\ Cardinality({<<w[1], w[2]>> : w \in wlog}) = Cardinality(wlog)
    /\ ~ub

C8_Witness ==
  /\ strategy = "loop"
  /\ n >= 2
  /\ batch_size >= 2
  /\ \A i \in Matrices : stage[i] = "solved"
  /\ \E w1, w2 \in wlog : w1[1] = "pivot" /\ w2[1] = "pivot" /\ w1[3] # w2[3]

StatusBuffers == {"infos", "info1", "info2"}

\* C9: every status cell is zero and unwritten until a kernel runs; a cell
\* is written by the phase and matrix of its position only; and at the audit
\* each cell has been written exactly once, the solve cell also when the
\* factorization of its matrix reported a non-zero code.
C9_StatusCellsWrittenOnce ==
  /\ emitted = {} =>
       \A b \in StatusBuffers : \A k \in DOMAIN mem[b] : mem[b][k] = [v |-> 0, w |-> <<>>]
  /\ \A k \in DOMAIN mem.infos :
       /\ Len(mem.infos[k].w) <= 1
       /\ \A x \in 1..Len(mem.infos[k].w) : mem.infos[k].w[x] = <<k \div 2, k % 2>>
  /\ \A k \in DOMAIN mem.info1 :
       \A x \in 1..Len(mem.info1[k].w) : mem.info1[k].w[x] = <<k, 0>>
  /\ \A k \in DOMAIN mem.info2 :
       \A x \in 1..Len(mem.info2[k].w) : mem.info2[k].w[x] = <<k, 1>>
  /\ AtAudit =>
       /\ DOMAIN mem.infos = 0..(2 * Max(batch_size, 1) - 1)
       /\ \A i \in Matrices : \A p \in {0, 1} : mem.infos[2 * i + p].w = << <<i, p>> >>

C9_Witness ==
  /\ AuditDone
  /\ strategy = "loop"
  /\ \E i \in Matrices : Code(i, 0) # 0 /\ mem.infos[2 * i + 1].w = << <<i, 1>> >>

\* C10: the caller's tensor holds after every step what it held at the
\* call, and no kernel writes a cell of it.
C10_InputNeverModified ==
  /\ mem.self = Input(shape)
  /\ \A w \in wlog : w[1] # "self"

C10_Witness ==
  /\ pc = "done"
  /\ n >= 2
  /\ batch_size >= 2
  /\ strategy = "fused"
  /\ mem.wc # cloneBatchedColumnMajor(shape, mem.self)

====
